---- MODULE Spec2Model ----
(***************************************************************************)
(* The assessment commands of bonsai-cli                                   *)
(* (bonsai_cli/commands/assessment.py): one command invocation per         *)
(* behaviour, each handler cut into its steps at the remote calls it       *)
(* makes.                                                                  *)
(*                                                                         *)
(* Conventions.  A Python str whose characters matter (the maximum         *)
(* duration, the answer typed at the delete prompt, the state of an        *)
(* assessment, the text of a server error) is a sequence of                *)
(* one-character strings.  A str that the code only tests for truthiness   *)
(* and passes on (brain name, assessment name, ...) is a TLA+ string, ""   *)
(* standing for both None and the empty str, which the code never tells    *)
(* apart.  An Optional[int] is a sequence of length at most one: <<>> is   *)
(* None and <<v>> is v.                                                    *)
(***************************************************************************)
EXTENDS Integers, Sequences, FiniteSets, TLC

(***************************************************************************)
(* Bounds of the model.                                                    *)
(***************************************************************************)
MaxLen == 3        \* longest arbitrary duration string drawn from Alphabet
MaxDigits == 2     \* most digits of a number inside a composite duration
MaxVersion == 2    \* largest brain version the user or the service names
MaxCount == 2      \* largest instance count of a package descriptor
MaxItems == 2      \* most items in a list_assessment response

(***************************************************************************)
(* Python values.                                                          *)
(***************************************************************************)
None == <<>>

Some(v) == <<v>>

\* bool(x) of an Optional[int]: None and 0 are falsy.
TruthyInt(o) == o # None /\ o[1] # 0

\* bool(s) of an Optional[str] kept as a TLA+ string: None and "" are falsy.
TruthyStr(s) == s # ""

DigitChars == {"0", "1", "2", "3", "4", "5", "6", "7", "8", "9"}

DigitVal(c) ==
    CASE c = "0" -> 0 [] c = "1" -> 1 [] c = "2" -> 2 [] c = "3" -> 3
      [] c = "4" -> 4 [] c = "5" -> 5 [] c = "6" -> 6 [] c = "7" -> 7
      [] c = "8" -> 8 [] c = "9" -> 9

RECURSIVE DecVal(_)
\* The value of a non-empty run of decimal digits.
DecVal(ds) ==
    IF ds = <<>> THEN 0
    ELSE DecVal(SubSeq(ds, 1, Len(ds) - 1)) * 10 + DigitVal(ds[Len(ds)])

AllDigits(s) == \A i \in 1..Len(s) : s[i] \in DigitChars

\* Whether int(s) succeeds: an optional sign, then one or more digits
\* (whitespace and underscores, which int() also takes, are outside the
\* alphabets used here).
IsPyInt(s) ==
    /\ Len(s) >= 1
    /\ IF s[1] \in {"-", "+"}
       THEN Len(s) >= 2 /\ AllDigits(SubSeq(s, 2, Len(s)))
       ELSE AllDigits(s)

\* int(s), where it succeeds.
PyInt(s) ==
    IF s[1] = "-" THEN 0 - DecVal(SubSeq(s, 2, Len(s)))
    ELSE IF s[1] = "+" THEN DecVal(SubSeq(s, 2, Len(s)))
    ELSE DecVal(s)

UpperLetters ==
    <<"A", "B", "C", "D", "E", "F", "G", "H", "I", "J", "K", "L", "M",
      "N", "O", "P", "Q", "R", "S", "T", "U", "V", "W", "X", "Y", "Z">>

LowerLetters ==
    <<"a", "b", "c", "d", "e", "f", "g", "h", "i", "j", "k", "l", "m",
      "n", "o", "p", "q", "r", "s", "t", "u", "v", "w", "x", "y", "z">>

DigitChar(n) ==
    CASE n = 0 -> "0" [] n = 1 -> "1" [] n = 2 -> "2" [] n = 3 -> "3"
      [] n = 4 -> "4" [] n = 5 -> "5" [] n = 6 -> "6" [] n = 7 -> "7"
      [] n = 8 -> "8" [] n = 9 -> "9"

RECURSIVE PyStr(_)
\* str(n) for a non-negative integer n.
PyStr(n) ==
    IF n < 10 THEN <<DigitChar(n)>>
    ELSE PyStr(n \div 10) \o <<DigitChar(n % 10)>>

\* str.lower() on one character: an upper-case letter becomes its lower-case
\* letter and every other character stays.
LowerChar(c) ==
    IF \E i \in 1..26 : UpperLetters[i] = c
    THEN LowerLetters[CHOOSE i \in 1..26 : UpperLetters[i] = c]
    ELSE c

\* Variant of Lower: the answer is compared as typed.
Lower_AsTyped(s) == s

Lower(s) == [i \in 1..Len(s) |-> LowerChar(s[i])]

(***************************************************************************)
(* datetime.timedelta, restricted to whole minutes: the constructor        *)
(* normalises to days and 0 <= seconds < 86400 (microseconds stay 0).      *)
(***************************************************************************)
timedelta(days, hours, minutes) ==
    LET total == days * 1440 + hours * 60 + minutes
    IN  [days |-> total \div 1440, seconds |-> (total % 1440) * 60]

\* Variant of TruthyDelta: the test `duration is not None`.
TruthyDelta_NotNone(d) == d # None

\* bool(timedelta): false exactly for timedelta(0).
TruthyDelta(d) == d # None /\ d[1] # [days |-> 0, seconds |-> 0]

(***************************************************************************)
(* _DURATION_REGEX.match(input): three optional groups tried in order from *)
(* the start of the input.  A group matches when a non-empty run of digits *)
(* at the current position is followed by the group's unit letter;         *)
(* otherwise it is skipped.  The pattern can match the empty string, so    *)
(* match() always returns a match object.                                  *)
(***************************************************************************)
RECURSIVE RunEnd(_, _)
\* The first position at or after pos that holds no digit.
RunEnd(s, pos) ==
    IF pos <= Len(s) /\ s[pos] \in DigitChars THEN RunEnd(s, pos + 1) ELSE pos

\* One optional group ((?P<unit>\d+?)u)? tried at pos.
Group(s, pos, u) ==
    LET e == RunEnd(s, pos)
    IN  IF e > pos /\ e <= Len(s) /\ s[e] = u
        THEN [value |-> SubSeq(s, pos, e - 1), next |-> e + 1]
        ELSE [value |-> None, next |-> pos]

DURATION_REGEX_match(s) ==
    LET d == Group(s, 1, "d")
        h == Group(s, d.next, "h")
        m == Group(s, h.next, "m")
    IN  [matched |-> TRUE,
         days |-> d.value, hours |-> h.value, minutes |-> m.value,
         end |-> m.next - 1]

\* A group's contribution to timedelta(**timedelta_kwargs): absent groups
\* are left out, and timedelta defaults them to 0.
Kwarg(value) == IF value = None THEN 0 ELSE DecVal(value)

\* parse_duration(input): Some(timedelta) or None.
parse_duration(input) ==
    IF IsPyInt(input)
    THEN Some(timedelta(0, PyInt(input), 0))
    ELSE LET parts == DURATION_REGEX_match(input)
         IN  IF ~parts.matched
             THEN None
             ELSE Some(timedelta(Kwarg(parts.days), Kwarg(parts.hours),
                                 Kwarg(parts.minutes)))

\* start_assessment's conversion of a parsed duration to minutes:
\* (duration.days * 1440) + int(duration.seconds / 60).
DurationMinutes(duration) ==
    (duration[1].days * 1440) + (duration[1].seconds \div 60)

(***************************************************************************)
(* Inputs.                                                                 *)
(***************************************************************************)
\* The characters arbitrary duration strings are drawn from.
Alphabet == {"0", "3", "d", "h", "m", "-", "x"}

Strings(n) == UNION {[1..k -> Alphabet] : k \in 0..n}

\* The numbers of a composite duration, as digit strings, and None for an
\* absent group.
NumStrs == UNION {[1..k -> {"0", "3"}] : k \in 1..MaxDigits}

NumOrNone == NumStrs \cup {None}

Unit(n, u) == IF n = None THEN <<>> ELSE n \o <<u>>

\* <days>d<hours>h<minutes>m with any of the groups left out.
Composite(d, h, m) == Unit(d, "d") \o Unit(h, "h") \o Unit(m, "m")

Composites == {Composite(d, h, m) : d \in NumOrNone, h \in NumOrNone, m \in NumOrNone}

\* The durations the documentation names: 5, 2d, 1d2h30m, 2h, and the
\* default 24.
Examples ==
    { <<"5">>, <<"2", "d">>, <<"1", "d", "2", "h", "3", "0", "m">>,
      <<"2", "h">>, <<"2", "4">> }

\* Durations with the units out of order (1h2d) and with characters after
\* a composite (2dx).
Malformed == { <<"1", "h", "2", "d">>, <<"2", "d", "x">> }

DurationInputs == Strings(MaxLen) \cup Composites \cup Examples \cup Malformed

OptVersions == {None} \cup {Some(v) : v \in 0..MaxVersion}

OptCounts == {None} \cup {Some(i) : i \in 0..(MaxCount + 1)}

Commands == {"start", "list", "show", "get-configuration", "update", "stop", "delete"}

\* --output: json, or anything else for the plain text.
Outputs == {"", "json"}

\* The options of one invocation.  Options a command does not take stay at
\* their absent value.  display_name, description, workspace_id and debug
\* are passed through to the service untouched and are left out.
NoArgs ==
    [brain_name |-> "", concept_name |-> "", file |-> "", name |-> "",
     brain_version |-> None, maximum_duration |-> <<>>,
     episode_iteration_limit |-> None, simulator_package_name |-> "",
     instance_count |-> None, yes |-> FALSE, output |-> "", test |-> FALSE]

\* start: every option varied, over a few durations.
StartOptionArgs ==
    { [NoArgs EXCEPT !.brain_name = b, !.concept_name = c, !.file = f,
                     !.name = "a", !.brain_version = v,
                     !.maximum_duration = d,
                     !.episode_iteration_limit = l,
                     !.simulator_package_name = p, !.instance_count = i] :
        b \in {"", "b"}, c \in {"", "c"}, f \in {"", "f"}, v \in OptVersions,
        d \in {<<>>, <<"2", "d">>, <<"x">>},
        l \in {None, Some(0), Some(5)}, p \in {"", "pkg"}, i \in OptCounts }

\* start: every duration, the other options fixed.
StartDurationArgs ==
    { [NoArgs EXCEPT !.brain_name = "b", !.concept_name = "c", !.file = "f",
                     !.name = "a", !.brain_version = Some(1),
                     !.maximum_duration = d] : d \in DurationInputs }

\* start: the output options varied, with and without a simulator package.
StartOutputArgs ==
    { [NoArgs EXCEPT !.brain_name = "b", !.concept_name = "c", !.file = "f",
                     !.name = "a", !.brain_version = Some(1),
                     !.simulator_package_name = p,
                     !.output = o, !.test = t] :
        p \in {"", "pkg"}, o \in Outputs, t \in BOOLEAN }

NamedArgs ==
    { [NoArgs EXCEPT !.name = n, !.brain_name = b, !.brain_version = v,
                     !.output = o, !.test = t] :
        n \in {"", "a"}, b \in {"", "b"}, v \in OptVersions,
        o \in Outputs, t \in BOOLEAN }

ArgsOf(c) ==
    CASE c = "start" ->
            StartOptionArgs \cup StartDurationArgs \cup StartOutputArgs
      [] c = "list" ->
            { [NoArgs EXCEPT !.brain_name = b, !.brain_version = v,
                             !.output = o, !.test = t] :
                b \in {"", "b"}, v \in OptVersions,
                o \in Outputs, t \in BOOLEAN }
      [] c = "get-configuration" ->
            { [a EXCEPT !.file = f] : a \in NamedArgs, f \in {"", "out"} }
      [] c = "delete" ->
            { [a EXCEPT !.yes = y] : a \in NamedArgs, y \in BOOLEAN }
      [] OTHER -> NamedArgs

\* What the user may type at the delete prompt.
Answers ==
    { <<"y">>, <<"Y">>, <<"y", "e", "s">>, <<"Y", "E", "S">>, <<"Y", "e", "s">>,
      <<"n">>, <<"N">>, <<"n", "o">>, <<"N", "O">>, <<"N", "o">>,
      <<>>, <<"y", "e">>, <<"y", "y">>, <<"o", "n">>, <<"x">>, <<"y", "E", "s", "s">> }

\* "Unique index constraint violation", the text start_assessment looks for.
UniqueIndexConstraintViolation ==
    <<"U", "n", "i", "q", "u", "e", " ", "i", "n", "d", "e", "x", " ", "c", "o", "n", "s", "t", "r", "a", "i", "n", "t", " ", "v", "i", "o", "l", "a", "t", "i", "o", "n">>

\* "not found", the text the handlers of one assessment look for.
NotFound == <<"n", "o", "t", " ", "f", "o", "u", "n", "d">>

\* "Internal error"
InternalError == <<"I", "n", "t", "e", "r", "n", "a", "l", " ", "e", "r", "r", "o", "r">>

\* str(e) of a BrainServerError, character by character: the two texts
\* above as the service words them, in another casing ("unique index
\* constraint violation", "Not Found"), inside a longer text ("Assessment
\* not found", "Cannot found"), and a text with neither.
ErrorTexts ==
    { UniqueIndexConstraintViolation,
      <<"u", "n", "i", "q", "u", "e", " ", "i", "n", "d", "e", "x", " ", "c", "o", "n", "s", "t", "r", "a", "i", "n", "t", " ", "v", "i", "o", "l", "a", "t", "i", "o", "n">>,
      <<"A", "s", "s", "e", "s", "s", "m", "e", "n", "t", " ", "n", "o", "t", " ", "f", "o", "u", "n", "d">>,
      <<"N", "o", "t", " ", "F", "o", "u", "n", "d">>,
      <<"C", "a", "n", "n", "o", "t", " ", "f", "o", "u", "n", "d">>,
      InternalError }

StatusCodes == {400, 404, 500}

\* What a remote call may raise.
ServerErrors ==
    { [type |-> "BrainServerError", text |-> t, statusCode |-> c] :
        t \in ErrorTexts, c \in StatusCodes }

AuthError == [type |-> "AuthenticationError", text |-> <<"login", "failed">>, statusCode |-> 401]

\* The package descriptors get_sim_package may return: every combination
\* of instance counts, and every combination of the other fields.
Descriptors ==
    { [coresPerInstance |-> 1, memInGbPerInstance |-> 4,
       minInstanceCount |-> lo, maxInstanceCount |-> hi,
       startInstanceCount |-> st, autoScale |-> TRUE, autoTerminate |-> TRUE] :
        lo \in 0..MaxCount, hi \in 0..MaxCount, st \in 0..MaxCount }
    \cup
    { [coresPerInstance |-> c, memInGbPerInstance |-> m,
       minInstanceCount |-> 0, maxInstanceCount |-> MaxCount,
       startInstanceCount |-> 1, autoScale |-> s, autoTerminate |-> t] :
        c \in {1, 2}, m \in {4, 8}, s \in BOOLEAN, t \in BOOLEAN }

\* The states the service may report for an assessment: the five the CLI
\* knows in several casings, and others.
RawStates ==
    { <<"a", "c", "t", "i", "v", "e">>,
      <<"A", "C", "T", "I", "V", "E">>,
      <<"A", "c", "t", "i", "v", "e">>,
      <<"a", "C", "t", "I", "v", "E">>,
      <<"c", "a", "n", "c", "e", "l", "l", "e", "d">>,
      <<"C", "A", "N", "C", "E", "L", "L", "E", "D">>,
      <<"C", "a", "n", "c", "e", "l", "l", "e", "d">>,
      <<"c", "A", "n", "C", "e", "L", "l", "E", "d">>,
      <<"c", "o", "m", "p", "l", "e", "t", "e">>,
      <<"C", "O", "M", "P", "L", "E", "T", "E">>,
      <<"C", "o", "m", "p", "l", "e", "t", "e">>,
      <<"c", "O", "m", "P", "l", "E", "t", "E">>,
      <<"d", "e", "a", "d", "l", "i", "n", "e", "e", "x", "c", "e", "e", "d", "e", "d">>,
      <<"D", "E", "A", "D", "L", "I", "N", "E", "E", "X", "C", "E", "E", "D", "E", "D">>,
      <<"D", "e", "a", "d", "l", "i", "n", "e", "e", "x", "c", "e", "e", "d", "e", "d">>,
      <<"d", "E", "a", "D", "l", "I", "n", "E", "e", "X", "c", "E", "e", "D", "e", "D">>,
      <<"e", "r", "r", "o", "r">>,
      <<"E", "R", "R", "O", "R">>,
      <<"E", "r", "r", "o", "r">>,
      <<"e", "R", "r", "O", "r">>,
      <<"D", "e", "a", "d", "l", "i", "n", "e", "E", "x", "c", "e", "e", "d", "e", "d">>,
      <<>>,
      <<"u", "n", "k", "n", "o", "w", "n">>,
      <<"a", "c", "t", "i", "v">>,
      <<"e", "r", "r", "o", "r", "s">>,
      <<"C", "o", "m", "p", "l", "e", "t", "e", "d">>,
      <<"i", "n", " ", "p", "r", "o", "g", "r", "e", "s", "s">>,
      <<" ", "a", "c", "t", "i", "v", "e">> }

\* The timing fields of a response.
Timings == { [elapsed |-> 0, timeTaken |-> 15], [elapsed |-> 12, timeTaken |-> 7] }

\* The fields every response carries.
Succeeded(t) ==
    [status |-> "Succeeded", statusCode |-> 200,
     elapsed |-> t.elapsed, timeTaken |-> t.timeTaken]

\* What start_assessmentv2 returns (the name is read at line 263).
StartResponses(name) == { Succeeded(t) @@ [name |-> name] : t \in Timings }

\* What update_assessment, stop_assessment_v2 and delete_assessment return.
StatusResponses == { Succeeded(t) : t \in Timings }

\* What get_assessment returns.
AssessmentResponses(name) ==
    { Succeeded(t) @@
      [name |-> name, displayName |-> "display name", description |-> "description",
       state |-> st, runTime |-> 5, concept |-> "c", lessonIndex |-> 1,
       createdTimeStamp |-> "created", modifiedTimeStamp |-> "modified",
       scenarios |-> "scenarios"] :
        t \in Timings, st \in RawStates }

\* The items list_assessment may return: complete ones, and ones without a
\* name, a state or a description.
Items ==
    { [name |-> "a1", state |-> st, description |-> "d1"] :
        st \in { <<"a", "c", "t", "i", "v", "e">>,
                 <<"E", "R", "R", "O", "R">>,
                 <<"q", "u", "e", "u", "e", "d">> } }
    \cup { [name |-> "a2", state |-> <<"C", "o", "m", "p", "l", "e", "t", "e">>, description |-> ""],
           [state |-> <<"a", "c", "t", "i", "v", "e">>, description |-> "d3"],
           [name |-> "a4", description |-> "d4"],
           [name |-> "a5", state |-> <<"a", "c", "t", "i", "v", "e">>] }

\* The lists of at most n items.
ItemLists(n) == UNION { [1..k -> Items] : k \in 0..n }

ListResponses ==
    { Succeeded(t) @@ [value |-> v] : t \in Timings, v \in ItemLists(MaxItems) }

NoDescriptor ==
    [coresPerInstance |-> 0, memInGbPerInstance |-> 0,
     minInstanceCount |-> 0, maxInstanceCount |-> 0,
     startInstanceCount |-> 0, autoScale |-> FALSE, autoTerminate |-> FALSE]

(***************************************************************************)
(* State.                                                                  *)
(***************************************************************************)
VARIABLES
    cmd,        \* the command invoked
    args,       \* its options
    pc,         \* the handler's position
    brain_version,                 \* local brain_version
    maximum_duration_in_minutes,   \* local of start_assessment
    episode_iteration_limit,       \* local of start_assessment
    instance_count,                \* local of start_assessment
    show_simulator_package_response,
    is_delete,                     \* local of delete_assessment
    typed,                         \* the line input() read in delete_assessment
    choice,                        \* input().lower() in delete_assessment
    response,                      \* local response: what the primary call returned
    json_response,                 \* local json_response: the object echoed
    rows,                          \* local rows of list_assessment
    calls,      \* the remote calls issued so far, in order
    err,        \* the exception the command ended with
    out,        \* what the command echoed
    version_checks   \* calls of brain_version_checker.check_cli_version

vars ==
    <<cmd, args, pc, brain_version, maximum_duration_in_minutes,
      episode_iteration_limit, instance_count,
      show_simulator_package_response, is_delete, typed, choice, response,
      json_response, rows, calls, err, out, version_checks>>

locals ==
    <<maximum_duration_in_minutes, episode_iteration_limit, instance_count,
      show_simulator_package_response, is_delete, typed, choice>>

NoErr == [raiser |-> "", msgs |-> <<>>, kind |-> "", id |-> ""]

NoException == [type |-> "", text |-> <<>>, statusCode |-> 0]

\* One remote call: the endpoint, the request, the exception it raised
\* (NoException when it returned) and the value returned where a later
\* step uses it.
Call(api, req, raised, value) ==
    [api |-> api, req |-> req, ok |-> raised = NoException, raised |-> raised,
     value |-> value]

Init ==
    /\ cmd \in Commands
    /\ args \in ArgsOf(cmd)
    /\ pc = "validate"
    /\ brain_version = args.brain_version
    /\ maximum_duration_in_minutes = 0
    /\ episode_iteration_limit = args.episode_iteration_limit
    /\ instance_count = args.instance_count
    /\ show_simulator_package_response = NoDescriptor
    /\ is_delete = FALSE
    /\ typed = <<>>
    /\ choice = <<>>
    /\ response = None
    /\ json_response = None
    /\ rows = None
    /\ calls = <<>>
    /\ err = NoErr
    /\ out = <<>>
    /\ version_checks = 0

(***************************************************************************)
(* Helpers shared by the handlers.                                         *)
(***************************************************************************)
\* Variant of Contains: the letter case is ignored.
Contains_IgnoreCase(text, needle) ==
    \E i \in 0..(Len(text) - Len(needle)) :
        Lower(SubSeq(text, i + 1, i + Len(needle))) = Lower(needle)

\* `needle in text`: needle is a run of consecutive items of text.
Contains(text, needle) ==
    \E i \in 0..(Len(text) - Len(needle)) :
        SubSeq(text, i + 1, i + Len(needle)) = needle

\* The command ends with an exception: raised by `raiser`, carrying the
\* messages `msgs`, about the object of kind `kind` named `id`.
Raise(raiser, msgs, kind, id) ==
    /\ pc' = "failed"
    /\ err' = [raiser |-> raiser, msgs |-> msgs, kind |-> kind, id |-> id]

\* raise_as_click_exception always raises a CustomClickException.
raise_as_click_exception(msgs) ==
    Raise("raise_as_click_exception", msgs, "", "")

\* The three helpers below are imported from bonsai_cli.utils; each raises
\* a click exception naming what it was given.
raise_not_found_as_click_exception(kind, id, e) ==
    Raise("raise_not_found_as_click_exception", e.text, kind, id)

raise_unique_constraint_violation_as_click_exception(kind, id, e) ==
    Raise("raise_unique_constraint_violation_as_click_exception", e.text, kind, id)

raise_brain_server_error_as_click_exception(e) ==
    Raise("raise_brain_server_error_as_click_exception", e.text, "", "")

\* An exception no handler catches ends the command as well.
Uncaught(e) == Raise("uncaught", e.text, e.type, "")

\* One message of error_msg, added when its option is missing.
Required(present, msg) == IF present THEN <<>> ELSE <<msg>>

LookupError == [type |-> "LookupError", text |-> <<"lookup", "failed">>, statusCode |-> 0]

\* get_latest_brain_version(brain_name, ...): one lookup at the service,
\* which returns the latest version or fails, and a failure ends the
\* command.
get_latest_brain_version(next) ==
    \/ \E v \in 1..MaxVersion :
          /\ calls' = Append(calls, Call("get_latest_brain_version",
                                         [brain_name |-> args.brain_name],
                                         NoException, Some(v)))
          /\ brain_version' = Some(v)
          /\ pc' = next
          /\ err' = err
    \/ /\ calls' = Append(calls, Call("get_latest_brain_version",
                                      [brain_name |-> args.brain_name],
                                      LookupError, None))
       /\ brain_version' = brain_version
       /\ Raise("get_latest_brain_version", LookupError.text, "", "")

\* `if not brain_version:`
VersionMissing(v) == ~TruthyInt(v)

\* Variant of ResolveVersion: the lookup is made whatever was supplied.
ResolveVersion_Always(next) ==
    /\ get_latest_brain_version(next)
    /\ UNCHANGED <<cmd, args, locals, response, json_response, rows, out, version_checks>>

\* if not brain_version: brain_version = get_latest_brain_version(...)
ResolveVersion(next) ==
    /\ IF VersionMissing(brain_version)
       THEN get_latest_brain_version(next)
       ELSE /\ pc' = next
            /\ UNCHANGED <<brain_version, calls, err>>
    /\ UNCHANGED <<cmd, args, locals, response, json_response, rows, out, version_checks>>

\* The validation show, get-configuration, update, stop and delete share:
\* name and brain_name are required.
ValidateNamed ==
    LET error_msg ==
            Required(TruthyStr(args.name), "Name of the assessment is required")
            \o Required(TruthyStr(args.brain_name), "Name of the brain is required")
        required_options_provided == error_msg = <<>>
    IN  /\ IF ~required_options_provided
           THEN raise_as_click_exception(error_msg)
           ELSE pc' = "resolve" /\ err' = err
        /\ UNCHANGED <<cmd, args, brain_version, locals, response, json_response, rows,
                   calls, out, version_checks>>

\* The request every command but start sends for one assessment.
NamedRequest ==
    [name |-> args.name, brain_name |-> args.brain_name, version |-> brain_version]

\* A call of `api` that shows, gets the configuration of, updates or stops
\* one assessment, with the handlers' common except clauses.
NamedCall(api, responses) ==
    /\ \/ \E r \in responses :
             /\ calls' = Append(calls, Call(api, NamedRequest, NoException, None))
             /\ response' = Some(r)
             /\ pc' = "report"
             /\ err' = err
       \/ \E e \in ServerErrors :
             /\ calls' = Append(calls, Call(api, NamedRequest, e, None))
             /\ response' = response
             /\ IF Contains(e.text, NotFound)
                THEN raise_not_found_as_click_exception("Assessment", args.name, e)
                ELSE raise_brain_server_error_as_click_exception(e)
       \/ /\ calls' = Append(calls, Call(api, NamedRequest, AuthError, None))
          /\ response' = response
          /\ raise_as_click_exception(AuthError.text)
    /\ UNCHANGED <<cmd, args, brain_version, locals, json_response, rows, out,
                   version_checks>>

\* `if output == "json":`
JsonOutput == args.output = "json"

\* What is echoed in place of the text when the output is JSON.
Dumps == "dumps(json_response)"

\* if output == "json": click.echo(dumps(json_response))
\* else: click.echo(...), once for each of `lines`.
Echo(json, lines) ==
    /\ json_response' = IF JsonOutput THEN Some(json) ELSE None
    /\ out' = out \o (IF JsonOutput THEN <<Dumps>> ELSE lines)

\* if test: json_response["elapsed"] = str(response["elapsed"]), and the
\* same for timeTaken.
TestFields(json) ==
    IF args.test
    THEN [elapsed |-> PyStr(response[1].elapsed),
          timeTaken |-> PyStr(response[1].timeTaken)] @@ json
    ELSE json

\* The object start, get-configuration (to a file), update, stop and delete
\* build.
StatusJson(message) ==
    TestFields([status |-> response[1].status,
                statusCode |-> response[1].statusCode,
                statusMessage |-> message])

\* brain_version_checker.check_cli_version(wait=True, print_up_to_date=False)
check_cli_version == version_checks' = version_checks + 1

\* The end of the handlers that report a status message: the message or the
\* object is echoed and the client version is checked.
Report(message) ==
    /\ Echo(StatusJson(message), <<message>>)
    /\ check_cli_version
    /\ pc' = "done"
    /\ UNCHANGED <<cmd, args, brain_version, locals, response, rows, calls, err>>

(***************************************************************************)
(* get_assessment_status                                                   *)
(***************************************************************************)
\* "active", "cancelled", "complete", "deadlineexceeded", "error"
Active == <<"a", "c", "t", "i", "v", "e">>

Cancelled == <<"c", "a", "n", "c", "e", "l", "l", "e", "d">>

Complete == <<"c", "o", "m", "p", "l", "e", "t", "e">>

DeadlineExceeded ==
    <<"d", "e", "a", "d", "l", "i", "n", "e", "e", "x", "c", "e", "e", "d", "e", "d">>

Error == <<"e", "r", "r", "o", "r">>

\* Variant of get_assessment_status: the state is compared as given.
get_assessment_status_AsGiven(state) ==
    IF state = Active THEN "In progress"
    ELSE IF state = Cancelled \/ state = Complete \/ state = DeadlineExceeded
    THEN "Complete"
    ELSE IF state = Error THEN "Error"
    ELSE ""

\* Lines 1028-1042.
get_assessment_status(state) ==
    IF Lower(state) = Active THEN "In progress"
    ELSE IF \/ Lower(state) = Cancelled
            \/ Lower(state) = Complete
            \/ Lower(state) = DeadlineExceeded
    THEN "Complete"
    ELSE IF Lower(state) = Error THEN "Error"
    ELSE ""

(***************************************************************************)
(* start_assessment                                                        *)
(***************************************************************************)
DefaultEpisodeIterationLimit == 1000

\* str(24), the maximum duration when none is given.
DefaultMaximumDuration == <<"2", "4">>

\* Lines 109-144: the required options and the maximum duration.
StartValidate ==
    /\ cmd = "start" /\ pc = "validate"
    /\ LET maximum_duration ==
               IF args.maximum_duration = <<>>
               THEN DefaultMaximumDuration
               ELSE args.maximum_duration
           duration ==
               IF maximum_duration # <<>> THEN parse_duration(maximum_duration)
               ELSE None
           error_msg ==
               Required(TruthyStr(args.brain_name), "Name of the brain is required")
               \o Required(TruthyStr(args.concept_name), "Concept name is required")
               \o Required(TruthyStr(args.file),
                           "Path to JSON assessment configuration file is required")
               \o Required(maximum_duration = <<>> \/ TruthyDelta(duration),
                           "Invalid format for maximum_duration")
           required_options_provided == error_msg = <<>>
       IN  /\ maximum_duration_in_minutes' =
                  IF maximum_duration # <<>> /\ TruthyDelta(duration)
                  THEN DurationMinutes(duration)
                  ELSE 0
           /\ IF ~required_options_provided
              THEN raise_as_click_exception(error_msg)
              ELSE pc' = "resolve" /\ err' = err
    /\ UNCHANGED <<cmd, args, brain_version, episode_iteration_limit,
                   instance_count, show_simulator_package_response, is_delete,
                   typed, choice, response, json_response, rows, calls, out,
                   version_checks>>

\* Lines 146-155.
StartResolveVersion ==
    /\ cmd = "start" /\ pc = "resolve"
    /\ ResolveVersion("config")

\* Lines 157-172: the configuration file is read and parsed as JSON.
StartReadConfiguration ==
    /\ cmd = "start" /\ pc = "config"
    /\ \/ raise_as_click_exception(<<"cannot read the configuration file">>)
       \/ raise_as_click_exception(<<"Error reading JSON">>)
       \/ pc' = "primary" /\ err' = err
    /\ UNCHANGED <<cmd, args, brain_version, locals, response, json_response, rows,
                   calls, out, version_checks>>

StartRequest(limit) ==
    [name |-> args.name, brain_name |-> args.brain_name,
     version |-> brain_version, concept_name |-> args.concept_name,
     episode_iteration_limit |-> limit,
     maximum_duration_in_minutes |-> maximum_duration_in_minutes]

\* Variant of AfterStart: provisioning is attempted without a package name.
AfterStart_Always(simulator_package_name) == "get_sim_package"

\* Line 203, `if simulator_package_name:`: where a started assessment goes.
AfterStart(simulator_package_name) ==
    IF TruthyStr(simulator_package_name) THEN "get_sim_package" ELSE "report"

\* Lines 174-201: the start request.
StartCall ==
    /\ cmd = "start" /\ pc = "primary"
    /\ episode_iteration_limit' =
           IF ~TruthyInt(episode_iteration_limit)
           THEN Some(DefaultEpisodeIterationLimit)
           ELSE episode_iteration_limit
    /\ LET req == StartRequest(episode_iteration_limit'[1])
       IN  \/ \E r \in StartResponses(args.name) :
                 /\ calls' = Append(calls, Call("start_assessmentv2", req, NoException, None))
                 /\ response' = Some(r)
                 /\ pc' = AfterStart(args.simulator_package_name)
                 /\ err' = err
           \/ \E e \in ServerErrors :
                 /\ calls' = Append(calls, Call("start_assessmentv2", req, e, None))
                 /\ response' = response
                 /\ IF Contains(e.text, UniqueIndexConstraintViolation)
                    THEN raise_unique_constraint_violation_as_click_exception(
                             "Assessment", args.name, e)
                    ELSE raise_as_click_exception(e.text)
           \/ /\ calls' = Append(calls, Call("start_assessmentv2", req, AuthError, None))
              /\ response' = response
              /\ raise_as_click_exception(AuthError.text)
    /\ UNCHANGED <<cmd, args, brain_version, maximum_duration_in_minutes,
                   instance_count, show_simulator_package_response, is_delete,
                   typed, choice, json_response, rows, out, version_checks>>

\* Variant of PackageNotFound: the error text is searched, as the other
\* handlers do.
PackageNotFound_ByText(e) == Contains(e.text, NotFound)

\* Line 212, `if e.exception["statusCode"] == 404:`.
PackageNotFound(e) == e.statusCode = 404

\* Variant of StartGetSimPackage: a package lookup that fails with a server
\* error is tried once more.
StartGetSimPackage_Retrying ==
    /\ cmd = "start" /\ pc = "get_sim_package"
    /\ LET req == [package_name |-> args.simulator_package_name]
       IN  \/ \E d \in Descriptors :
                 /\ calls' = Append(calls, Call("get_sim_package", req, NoException, None))
                 /\ show_simulator_package_response' = d
                 /\ pc' = "create_sim_collection"
                 /\ err' = err
           \/ \E e \in ServerErrors :
                 /\ calls' = Append(calls, Call("get_sim_package", req, e, None))
                 /\ show_simulator_package_response' = show_simulator_package_response
                 /\ IF \A i \in 1..Len(calls) : calls[i].api # "get_sim_package"
                    THEN pc' = pc /\ err' = err
                    ELSE raise_brain_server_error_as_click_exception(e)
    /\ UNCHANGED <<cmd, args, brain_version, maximum_duration_in_minutes,
                   episode_iteration_limit, instance_count, is_delete, typed,
                   choice, response, json_response, rows, out, version_checks>>

\* Lines 203-226: the package descriptor is fetched.
StartGetSimPackage ==
    /\ cmd = "start" /\ pc = "get_sim_package"
    /\ LET req == [package_name |-> args.simulator_package_name]
       IN  \/ \E d \in Descriptors :
                 /\ calls' = Append(calls, Call("get_sim_package", req, NoException, None))
                 /\ show_simulator_package_response' = d
                 /\ pc' = "create_sim_collection"
                 /\ err' = err
           \/ \E e \in ServerErrors :
                 /\ calls' = Append(calls, Call("get_sim_package", req, e, None))
                 /\ show_simulator_package_response' = show_simulator_package_response
                 /\ IF PackageNotFound(e)
                    THEN raise_not_found_as_click_exception(
                             "Simulator package", args.simulator_package_name, e)
                    ELSE raise_brain_server_error_as_click_exception(e)
           \/ /\ calls' = Append(calls, Call("get_sim_package", req, AuthError, None))
              /\ show_simulator_package_response' = show_simulator_package_response
              /\ raise_as_click_exception(AuthError.text)
    /\ UNCHANGED <<cmd, args, brain_version, maximum_duration_in_minutes,
                   episode_iteration_limit, instance_count, is_delete, typed,
                   choice, response, json_response, rows, out, version_checks>>

\* Variant of StartInstanceCount: the override is ignored.
StartInstanceCount_NoOverride(override, descriptor) ==
    Some(descriptor.startInstanceCount)

\* Lines 237-238: the start instance count of the provisioning request.
StartInstanceCount(override, descriptor) ==
    IF ~TruthyInt(override) THEN Some(descriptor.startInstanceCount) ELSE override

SimCollectionRequest(descriptor, start) ==
    [packagename |-> args.simulator_package_name,
     brain_name |-> args.brain_name, brain_version |-> brain_version,
     purpose_action |-> "Assess", concept_name |-> args.concept_name,
     description |-> "desc",
     cores_per_instance |-> descriptor.coresPerInstance,
     memory_in_gb_per_instance |-> descriptor.memInGbPerInstance,
     start_instance_count |-> start,
     min_instance_count |-> descriptor.minInstanceCount,
     max_instance_count |-> descriptor.maxInstanceCount,
     auto_scaling |-> descriptor.autoScale,
     auto_termination |-> descriptor.autoTerminate]

\* Variant of StartCreateSimCollection: a failed provisioning is followed by
\* a request that stops the assessment.
StartCreateSimCollection_Compensating ==
    /\ cmd = "start" /\ pc = "create_sim_collection"
    /\ instance_count' =
           StartInstanceCount(instance_count, show_simulator_package_response)
    /\ LET req == SimCollectionRequest(show_simulator_package_response,
                                       instance_count'[1])
       IN  \/ /\ calls' = Append(calls, Call("create_sim_collection", req, NoException, None))
              /\ pc' = "report"
              /\ err' = err
           \/ \E e \in ServerErrors :
                 /\ calls' = calls \o <<Call("create_sim_collection", req, e, None),
                                        Call("stop_assessment_v2", NamedRequest,
                                             NoException, None)>>
                 /\ raise_brain_server_error_as_click_exception(e)
    /\ UNCHANGED <<cmd, args, brain_version, maximum_duration_in_minutes,
                   episode_iteration_limit, show_simulator_package_response,
                   is_delete, typed, choice, response, json_response, rows,
                   out, version_checks>>

\* Lines 228-260: the simulators are provisioned.  Only BrainServerError is
\* caught here; an AuthenticationError leaves the handler uncaught.
StartCreateSimCollection ==
    /\ cmd = "start" /\ pc = "create_sim_collection"
    /\ instance_count' =
           StartInstanceCount(instance_count, show_simulator_package_response)
    /\ LET req == SimCollectionRequest(show_simulator_package_response,
                                       instance_count'[1])
       IN  \/ /\ calls' = Append(calls, Call("create_sim_collection", req, NoException, None))
              /\ pc' = "report"
              /\ err' = err
           \/ \E e \in ServerErrors :
                 /\ calls' = Append(calls, Call("create_sim_collection", req, e, None))
                 /\ raise_brain_server_error_as_click_exception(e)
           \/ /\ calls' = Append(calls, Call("create_sim_collection", req, AuthError, None))
              /\ Uncaught(AuthError)
    /\ UNCHANGED <<cmd, args, brain_version, maximum_duration_in_minutes,
                   episode_iteration_limit, show_simulator_package_response,
                   is_delete, typed, choice, response, json_response, rows,
                   out, version_checks>>

\* Lines 262-282.
StartReport ==
    /\ cmd = "start" /\ pc = "report"
    /\ Report("Started assessment")

start_assessment ==
    \/ StartValidate
    \/ StartResolveVersion
    \/ StartReadConfiguration
    \/ StartCall
    \/ StartGetSimPackage
    \/ StartCreateSimCollection
    \/ StartReport

(***************************************************************************)
(* list_assessment                                                         *)
(***************************************************************************)
\* Lines 326-331.
ListValidate ==
    /\ cmd = "list" /\ pc = "validate"
    /\ IF ~TruthyStr(args.brain_name)
       THEN raise_as_click_exception(
                <<"Name of the brain for which assessments are to be listed is required">>)
       ELSE pc' = "resolve" /\ err' = err
    /\ UNCHANGED <<cmd, args, brain_version, locals, response, json_response, rows,
                   calls, out, version_checks>>

\* Lines 333-342.
ListResolveVersion ==
    /\ cmd = "list" /\ pc = "resolve"
    /\ ResolveVersion("primary")

\* Lines 344-356.
ListCall ==
    /\ cmd = "list" /\ pc = "primary"
    /\ LET req == [brain_name |-> args.brain_name, version |-> brain_version]
       IN  \/ \E r \in ListResponses :
                 /\ calls' = Append(calls, Call("list_assessment", req, NoException, None))
                 /\ response' = Some(r)
                 /\ pc' = "report"
                 /\ err' = err
           \/ \E e \in ServerErrors :
                 /\ calls' = Append(calls, Call("list_assessment", req, e, None))
                 /\ response' = response
                 /\ raise_brain_server_error_as_click_exception(e)
           \/ /\ calls' = Append(calls, Call("list_assessment", req, AuthError, None))
              /\ response' = response
              /\ raise_as_click_exception(AuthError.text)
    /\ UNCHANGED <<cmd, args, brain_version, locals, json_response, rows, out,
                   version_checks>>

\* Variant of NoAssessments: an empty collection is rendered like any other.
NoAssessments_Never(value) == FALSE

\* Line 358, `if len(response["value"]) == 0:`.
NoAssessments(value) == Len(value) = 0

\* Lines 370-372: the three reads of an item, any of which raises KeyError
\* when the item has no such field.
HasFields(item) == {"name", "state", "description"} \subseteq DOMAIN item

\* Line 374: the row appended for an item.
Row(item) == <<item.name, get_assessment_status(item.state), item.description>>

\* Lines 375-381: the object appended to dict_rows along with a row.
DictRow(row) ==
    [assessmentName |-> row[1], status |-> row[2], description |-> row[3]]

\* Variant of Rows: each row is put in front of the rows built so far.
Rows_Reversed(items) ==
    LET kept == SelectSeq(items, HasFields)
    IN  [i \in 1..Len(kept) |-> Row(kept[Len(kept) + 1 - i])]

RECURSIVE Rows(_)
\* Lines 366-383: the loop over the items, which appends a row for an item
\* unless reading it raised KeyError.
Rows(items) ==
    IF items = <<>> THEN <<>>
    ELSE LET before == Rows(SubSeq(items, 1, Len(items) - 1))
             item == items[Len(items)]
         IN  IF HasFields(item) THEN Append(before, Row(item)) ELSE before

\* What is echoed for the table of line 399.
Table == "tabulate(rows)"

\* Lines 358-407.  ctx.exit() ends the command with exit status 0.
ListReport ==
    /\ cmd = "list" /\ pc = "report"
    /\ IF NoAssessments(response[1].value)
       THEN /\ out' = Append(out, "No assessments exist")
            /\ pc' = "done"
            /\ UNCHANGED <<json_response, rows, version_checks>>
       ELSE LET built == Rows(response[1].value)
                dict_rows == [i \in 1..Len(built) |-> DictRow(built[i])]
            IN  /\ rows' = Some(built)
                /\ Echo(TestFields([value |-> dict_rows,
                                    status |-> response[1].status,
                                    statusCode |-> response[1].statusCode,
                                    statusMessage |-> ""]),
                        <<Table>>)
                /\ check_cli_version
                /\ pc' = "done"
    /\ UNCHANGED <<cmd, args, brain_version, locals, response, calls, err>>

list_assessment == ListValidate \/ ListResolveVersion \/ ListCall \/ ListReport

(***************************************************************************)
(* show_assessment                                                         *)
(***************************************************************************)
\* Lines 450-464.
ShowValidate == cmd = "show" /\ pc = "validate" /\ ValidateNamed

\* Lines 466-475.
ShowResolveVersion == cmd = "show" /\ pc = "resolve" /\ ResolveVersion("primary")

\* Lines 477-496.
ShowCall == cmd = "show" /\ pc = "primary" /\ NamedCall("get_assessment", AssessmentResponses(args.name))

\* Lines 499-511: the object show_assessment builds.
ShowJson ==
    [assessmentName |-> response[1].name,
     displayName |-> response[1].displayName,
     description |-> response[1].description,
     status |-> get_assessment_status(response[1].state),
     runTime |-> response[1].runTime,
     concept |-> response[1].concept,
     conceptLesson |-> response[1].lessonIndex,
     createdOn |-> response[1].createdTimeStamp,
     modifiedOn |-> response[1].modifiedTimeStamp,
     statusCode |-> response[1].statusCode,
     statusMessage |-> ""]

\* Lines 516-524: the lines show_assessment echoes, each stood for by its
\* caption and the Status line by the label it shows.
ShowLines ==
    <<"Assessment Name", "Display Name", "Description",
      get_assessment_status(response[1].state), "Run Time", "Concept",
      "Concept Lesson", "Created On", "Modified On">>

\* Lines 498-526.
ShowReport ==
    /\ cmd = "show" /\ pc = "report"
    /\ Echo(ShowJson, ShowLines)
    /\ check_cli_version
    /\ pc' = "done"
    /\ UNCHANGED <<cmd, args, brain_version, locals, response, rows, calls, err>>

show_assessment == ShowValidate \/ ShowResolveVersion \/ ShowCall \/ ShowReport

(***************************************************************************)
(* get_configuration_assessment                                            *)
(***************************************************************************)
\* Lines 575-589.
GetConfigurationValidate ==
    cmd = "get-configuration" /\ pc = "validate" /\ ValidateNamed

\* Lines 591-600.
GetConfigurationResolveVersion ==
    cmd = "get-configuration" /\ pc = "resolve" /\ ResolveVersion("primary")

\* Lines 602-621.
GetConfigurationCall ==
    cmd = "get-configuration" /\ pc = "primary" /\ NamedCall("get_assessment", AssessmentResponses(args.name))

\* open(file, "w+") may fail, and nothing catches that.
WriteError == [type |-> "OSError", text |-> <<"cannot write the file">>, statusCode |-> 0]

\* Lines 623-663: the scenarios are written to the file, or echoed.
GetConfigurationReport ==
    /\ cmd = "get-configuration" /\ pc = "report"
    /\ IF TruthyStr(args.file)
       THEN \/ Report("Assessment configuration saved")
            \/ /\ Uncaught(WriteError)
               /\ UNCHANGED <<cmd, args, brain_version, locals, response,
                              json_response, rows, calls, out, version_checks>>
       ELSE /\ Echo(TestFields([status |-> response[1].status,
                                statusCode |-> response[1].statusCode,
                                configuration |-> response[1].scenarios]),
                    <<response[1].scenarios>>)
            /\ check_cli_version
            /\ pc' = "done"
            /\ UNCHANGED <<cmd, args, brain_version, locals, response, rows,
                           calls, err>>

get_configuration_assessment ==
    \/ GetConfigurationValidate
    \/ GetConfigurationResolveVersion
    \/ GetConfigurationCall
    \/ GetConfigurationReport

(***************************************************************************)
(* update_assessment                                                       *)
(***************************************************************************)
\* Lines 710-724.
UpdateValidate == cmd = "update" /\ pc = "validate" /\ ValidateNamed

\* Lines 726-735.
UpdateResolveVersion == cmd = "update" /\ pc = "resolve" /\ ResolveVersion("primary")

\* Lines 737-758.
UpdateCall == cmd = "update" /\ pc = "primary" /\ NamedCall("update_assessment", StatusResponses)

\* Lines 760-780.
UpdateReport == cmd = "update" /\ pc = "report" /\ Report("Updated assessment")

update_assessment == UpdateValidate \/ UpdateResolveVersion \/ UpdateCall \/ UpdateReport

(***************************************************************************)
(* stop_assessment                                                         *)
(***************************************************************************)
\* Lines 823-837.
StopValidate == cmd = "stop" /\ pc = "validate" /\ ValidateNamed

\* Lines 839-848.
StopResolveVersion == cmd = "stop" /\ pc = "resolve" /\ ResolveVersion("primary")

\* Lines 850-870.
StopCall == cmd = "stop" /\ pc = "primary" /\ NamedCall("stop_assessment_v2", StatusResponses)

\* Lines 872-892.
StopReport == cmd = "stop" /\ pc = "report" /\ Report("Stopped assessment")

stop_assessment == StopValidate \/ StopResolveVersion \/ StopCall \/ StopReport

(***************************************************************************)
(* delete_assessment                                                       *)
(***************************************************************************)
yes_set == { <<"y", "e", "s">>, <<"y">> }

no_set == { <<"n", "o">>, <<"n">> }

\* Lines 939-953.
DeleteValidate == cmd = "delete" /\ pc = "validate" /\ ValidateNamed

\* Lines 955-964.
DeleteResolveVersion == cmd = "delete" /\ pc = "resolve" /\ ResolveVersion("confirm")

\* Lines 979-984: what the lowercased answer decides.
Affirmative(answer) == answer \in yes_set

Negative(answer) == answer \in no_set

\* Lines 966-987: the confirmation.
DeleteConfirm ==
    /\ cmd = "delete" /\ pc = "confirm"
    /\ IF ~args.yes
       THEN /\ out' = Append(out, "Are you sure you want to delete assessment")
            /\ \E line \in Answers :
                  /\ typed' = line
                  /\ choice' = Lower(line)
                  /\ IF Affirmative(choice')
                     THEN is_delete' = TRUE /\ pc' = "primary" /\ err' = err
                     ELSE IF Negative(choice')
                     THEN is_delete' = FALSE /\ pc' = "primary" /\ err' = err
                     ELSE /\ is_delete' = FALSE
                          /\ raise_as_click_exception(<<"Please respond with 'y' or 'n'">>)
       ELSE /\ is_delete' = TRUE
            /\ pc' = "primary"
            /\ UNCHANGED <<typed, choice, out, err>>
    /\ UNCHANGED <<cmd, args, brain_version, maximum_duration_in_minutes,
                   episode_iteration_limit, instance_count,
                   show_simulator_package_response, response, json_response,
                   rows, calls, version_checks>>

\* Lines 989-1003: the delete request, sent only if is_delete.
DeleteCall ==
    /\ cmd = "delete" /\ pc = "primary"
    /\ IF is_delete
       THEN \/ \E r \in StatusResponses :
                  /\ calls' = Append(calls, Call("delete_assessment", NamedRequest, NoException, None))
                  /\ response' = Some(r)
                  /\ pc' = "report"
                  /\ err' = err
            \/ \E e \in ServerErrors :
                  /\ calls' = Append(calls, Call("delete_assessment", NamedRequest, e, None))
                  /\ response' = response
                  /\ raise_brain_server_error_as_click_exception(e)
            \/ /\ calls' = Append(calls, Call("delete_assessment", NamedRequest, AuthError, None))
               /\ response' = response
               /\ raise_as_click_exception(AuthError.text)
       ELSE /\ pc' = "report"
            /\ UNCHANGED <<response, calls, err>>
    /\ UNCHANGED <<cmd, args, brain_version, locals, json_response, rows, out,
                   version_checks>>

\* Lines 1005-1025: the deletion message, echoed only if is_delete, and the
\* client version check.
DeleteReport ==
    /\ cmd = "delete" /\ pc = "report"
    /\ IF is_delete
       THEN Report("Deleted assessment")
       ELSE /\ check_cli_version
            /\ pc' = "done"
            /\ UNCHANGED <<cmd, args, brain_version, locals, response,
                           json_response, rows, calls, err, out>>

delete_assessment ==
    \/ DeleteValidate
    \/ DeleteResolveVersion
    \/ DeleteConfirm
    \/ DeleteCall
    \/ DeleteReport

(***************************************************************************)
(* The specification.                                                      *)
(***************************************************************************)
Next ==
    \/ start_assessment
    \/ list_assessment
    \/ show_assessment
    \/ get_configuration_assessment
    \/ update_assessment
    \/ stop_assessment
    \/ delete_assessment

Spec == Init /\ [][Next]_vars

(***************************************************************************)
(* Properties.                                                             *)
(***************************************************************************)
Range(seq) == {seq[i] : i \in 1..Len(seq)}

\* The positions in calls of the calls of one endpoint.
CallsOf(api) == {i \in 1..Len(calls) : calls[i].api = api}

Issued(api) == CallsOf(api) # {}

InvalidDuration == "Invalid format for maximum_duration"

\* The messages of failures found once the version is resolved.
LateInputMessages ==
    { "cannot read the configuration file", "Error reading JSON",
      "Please respond with 'y' or 'n'" }

InputMessages ==
    { "Name of the brain is required", "Concept name is required",
      "Path to JSON assessment configuration file is required",
      "Name of the assessment is required",
      "Name of the brain for which assessments are to be listed is required",
      InvalidDuration } \cup LateInputMessages

\* The command failed with an input validation error.
InputValidationError ==
    /\ pc = "failed"
    /\ err.raiser = "raise_as_click_exception"
    /\ err.msgs # <<>>
    /\ Range(err.msgs) \subseteq InputMessages

\* C1, as stated: whenever a command fails with an input validation error
\* (missing required field, unreadable or non-JSON configuration file,
\* invalid delete confirmation), no remote call of any kind, the latest
\* version lookup included, has been issued.
C1_NoRemoteCallOnInputError == InputValidationError => calls = <<>>

\* C1, amended: whenever a command fails with an input validation error, the
\* only remote call that can have been issued is one successful latest
\* version lookup, and only when no usable brain version was supplied and the
\* failure is an unreadable or non-JSON configuration file or an invalid
\* delete confirmation; a missing required field is reported before any
\* remote call.
C1_OnlyLookupOnInputError ==
    InputValidationError =>
        /\ Len(calls) <= 1
        /\ \A i \in 1..Len(calls) :
              calls[i].api = "get_latest_brain_version" /\ calls[i].ok
        /\ calls # <<>> =>
              /\ ~TruthyInt(args.brain_version)
              /\ Range(err.msgs) \subseteq LateInputMessages

\* delete fails on the answer typed at the prompt, after the lookup.
C1_Witness ==
    /\ InputValidationError
    /\ cmd = "delete"
    /\ err.msgs = <<"Please respond with 'y' or 'n'">>
    /\ Len(calls) = 1

\* The endpoint of a command's primary request.
PrimaryApi ==
    CASE cmd = "start" -> "start_assessmentv2"
      [] cmd = "list" -> "list_assessment"
      [] cmd \in {"show", "get-configuration"} -> "get_assessment"
      [] cmd = "update" -> "update_assessment"
      [] cmd = "stop" -> "stop_assessment_v2"
      [] cmd = "delete" -> "delete_assessment"

\* C2: for every command, if an explicit brain version is supplied no latest
\* version lookup is issued and the primary request carries exactly that
\* version; if none is supplied, exactly one lookup is issued before the
\* primary request, which carries the looked-up version.
C2_VersionResolution ==
    /\ args.brain_version # None => ~Issued("get_latest_brain_version")
    /\ \A i \in CallsOf(PrimaryApi) :
          IF args.brain_version # None
          THEN calls[i].req.version = args.brain_version
          ELSE /\ Cardinality(CallsOf("get_latest_brain_version")) = 1
               /\ \E j \in CallsOf("get_latest_brain_version") :
                     j < i /\ calls[i].req.version = calls[j].value

\* str(n) for a non-negative integer n: digits without a leading zero.
IsDecimal(s) ==
    /\ Len(s) >= 1
    /\ \A i \in 1..Len(s) : s[i] \in DigitChars
    /\ Len(s) = 1 \/ s[1] # "0"

\* C3: for every non-negative integer n, the decimal string of n given as
\* the maximum duration is accepted and yields n * 60 minutes.
C3_BareIntegerIsHours ==
    (cmd = "start" /\ pc # "validate" /\ IsDecimal(args.maximum_duration)) =>
        /\ InvalidDuration \notin Range(err.msgs)
        /\ maximum_duration_in_minutes = DecVal(args.maximum_duration) * 60

\* C4: for every composite <days>d<hours>h<minutes>m with any (here:
\* non-empty) subset of the groups, the duration is accepted and the minute
\* count is days * 1440 + hours * 60 + minutes, absent groups counting 0.
C4_CompositeMinutes ==
    \A d \in NumOrNone, h \in NumOrNone, m \in NumOrNone :
        ( /\ cmd = "start" /\ pc # "validate"
          /\ <<d, h, m>> # <<None, None, None>>
          /\ args.maximum_duration = Composite(d, h, m) ) =>
            /\ InvalidDuration \notin Range(err.msgs)
            /\ maximum_duration_in_minutes =
                   Kwarg(d) * 1440 + Kwarg(h) * 60 + Kwarg(m)

\* C5: every start request carries a non-negative maximum duration in
\* minutes, whatever maximum duration string the user gave.
C5_NonNegativeMinutes ==
    \A i \in CallsOf("start_assessmentv2") :
        calls[i].req.maximum_duration_in_minutes >= 0

\* A unit token: a digit followed by one of the unit letters.
HasUnitToken(s) ==
    \E i \in 2..Len(s) : s[i] \in {"d", "h", "m"} /\ s[i - 1] \in DigitChars

ProvisioningApis == {"get_sim_package", "create_sim_collection"}

\* C7: get_sim_package and create_sim_collection are called only if a
\* simulator package name was supplied and only after start_assessmentv2
\* returned; without a package name, or when the start call fails, neither
\* is called.
C7_ProvisioningOnlyAfterStart ==
    \A i \in 1..Len(calls) :
        calls[i].api \in ProvisioningApis =>
            /\ args.simulator_package_name # ""
            /\ \E j \in 1..(i - 1) :
                  calls[j].api = "start_assessmentv2" /\ calls[j].ok

\* Both provisioning calls were made.
C7_Witness == Issued("get_sim_package") /\ Issued("create_sim_collection")

\* C8: if the package lookup fails, create_sim_collection is never called
\* and the command fails: a BrainServerError with statusCode 404 as a
\* not-found error of kind "Simulator package" naming the package, one with
\* any other statusCode as a generic server error.
C8_PackageLookupFailure ==
    \A i \in CallsOf("get_sim_package") :
        ~calls[i].ok =>
            /\ pc = "failed"
            /\ ~Issued("create_sim_collection")
            /\ calls[i].raised.type = "BrainServerError" =>
                  IF calls[i].raised.statusCode = 404
                  THEN /\ err.raiser = "raise_not_found_as_click_exception"
                       /\ err.kind = "Simulator package"
                       /\ err.id = args.simulator_package_name
                  ELSE err.raiser = "raise_brain_server_error_as_click_exception"

\* The package lookup answered 404 with a text that does not say "not
\* found", and the command failed.
C8_Witness ==
    \E i \in CallsOf("get_sim_package") :
        /\ calls[i].raised.type = "BrainServerError"
        /\ calls[i].raised.statusCode = 404
        /\ calls[i].raised.text = InternalError
        /\ pc = "failed"

\* C9, as stated: every create_sim_collection request satisfies
\* min_instance_count <= start_instance_count <= max_instance_count, for
\* every package descriptor and every instance-count override.
C9_InstanceCountsOrdered ==
    \A i \in CallsOf("create_sim_collection") :
        /\ calls[i].req.min_instance_count <= calls[i].req.start_instance_count
        /\ calls[i].req.start_instance_count <= calls[i].req.max_instance_count

\* The start count a request is to use: the override when one is given and
\* is not 0, otherwise the descriptor's.
WantedStart ==
    IF args.instance_count # None /\ args.instance_count # Some(0)
    THEN args.instance_count[1]
    ELSE show_simulator_package_response.startInstanceCount

\* C9, amended: a create_sim_collection request satisfies min <= start <= max
\* whenever the descriptor's range [minInstanceCount, maxInstanceCount]
\* holds the start count the request is to use (the non-zero override if
\* given, else the descriptor's startInstanceCount); the values are passed
\* on as they are, neither clamped nor rejected.
C9_OrderedWhenDescriptorAllows ==
    \A i \in CallsOf("create_sim_collection") :
        ( /\ show_simulator_package_response.minInstanceCount <= WantedStart
          /\ WantedStart <= show_simulator_package_response.maxInstanceCount ) =>
            /\ calls[i].req.min_instance_count <= calls[i].req.start_instance_count
            /\ calls[i].req.start_instance_count <= calls[i].req.max_instance_count

\* A request built from an override inside the descriptor's range, the
\* descriptor's own start count lying outside it.
C9_Witness ==
    \E i \in CallsOf("create_sim_collection") :
        /\ args.instance_count = Some(1)
        /\ show_simulator_package_response.minInstanceCount = 1
        /\ show_simulator_package_response.maxInstanceCount = 2
        /\ show_simulator_package_response.startInstanceCount = 0
        /\ calls[i].req.start_instance_count = 1

\* The answers that are yes or y in some casing, and those that are no or n.
SaysYes(line) ==
    line \in { <<"y">>, <<"Y">>, <<"y", "e", "s">>, <<"Y", "E", "S">>, <<"Y", "e", "s">> }

SaysNo(line) ==
    line \in { <<"n">>, <<"N">>, <<"n", "o">>, <<"N", "O">>, <<"N", "o">> }

\* delete_assessment asked for confirmation and read the answer.
Answered ==
    /\ cmd = "delete"
    /\ ~args.yes
    /\ pc \notin {"validate", "resolve", "confirm"}
    /\ out # <<>>

\* delete_assessment is past the point where it sends the delete request.
PastDeleteCall == cmd = "delete" /\ pc \in {"report", "done"}

\* C10: delete_assessment issues the delete call if and only if the
\* skip-confirmation flag is set or the answer read, lowercased, is yes or
\* y; on no or n it issues no call and ends successfully without the
\* deletion message; on any other answer it fails with an input error and
\* issues no call.
C10_DeleteOnlyWhenConfirmed ==
    /\ Issued("delete_assessment") => cmd = "delete" /\ (args.yes \/ SaysYes(typed))
    /\ PastDeleteCall => (Issued("delete_assessment") <=> (args.yes \/ SaysYes(typed)))
    /\ (Answered /\ SaysYes(typed)) => pc = "primary" \/ Issued("delete_assessment")
    /\ (Answered /\ SaysNo(typed)) =>
          /\ pc \in {"primary", "report", "done"}
          /\ err = NoErr
          /\ ~Issued("delete_assessment")
          /\ "Deleted assessment" \notin Range(out)
          /\ json_response = None
    /\ (Answered /\ ~SaysYes(typed) /\ ~SaysNo(typed)) =>
          /\ pc = "failed"
          /\ err.raiser = "raise_as_click_exception"
          /\ err.msgs = <<"Please respond with 'y' or 'n'">>
          /\ ~Issued("delete_assessment")

\* The user typed YES and the assessment was deleted.
C10_Witness ==
    /\ Answered
    /\ typed = <<"Y", "E", "S">>
    /\ pc = "done"
    /\ Issued("delete_assessment")

\* The command ran to its end without an exception (exit status 0).
CompletedSuccessfully == pc = "done" /\ err = NoErr

\* The primary action of the command is behind it: its primary request was
\* answered, or delete_assessment was declined at the prompt.
PrimaryActionDone ==
    \/ \E i \in CallsOf(PrimaryApi) : calls[i].ok
    \/ cmd = "delete" /\ ~is_delete /\ pc \in {"report", "done"}

\* C11: every command that completes successfully has called the client
\* version check exactly once, after its primary action, and the check
\* leaves the command successful.
C11_VersionCheckedOnce ==
    /\ CompletedSuccessfully => version_checks = 1
    /\ version_checks >= 1 => PrimaryActionDone /\ CompletedSuccessfully

\* The fields of the object a command echoed.
JsonFields == DOMAIN json_response[1]

\* C12: in JSON mode every command that completes successfully has echoed
\* a JSON object that holds status and statusCode, and besides them
\* statusMessage or a field of its own.
C12_JsonObjectEmitted ==
    (CompletedSuccessfully /\ JsonOutput) =>
        /\ json_response # None
        /\ Dumps \in Range(out)
        /\ {"status", "statusCode"} \subseteq JsonFields
        /\ \/ "statusMessage" \in JsonFields
           \/ JsonFields \ {"status", "statusCode", "elapsed", "timeTaken"} # {}

\* field of the echoed object is str() of the same field of the response.
Stringified(field) ==
    /\ field \in JsonFields
    /\ IsDecimal(json_response[1][field])
    /\ DecVal(json_response[1][field]) = response[1][field]

\* C13: in JSON mode with the test flag, the object a successfully
\* completing command echoed holds elapsed and timeTaken, each the string of
\* the response's value.
C13_TimingFieldsUnderTest ==
    (CompletedSuccessfully /\ JsonOutput /\ args.test /\ json_response # None) =>
        Stringified("elapsed") /\ Stringified("timeTaken")

\* s is the word w (given in lower case) in some casing.
IsCasingOf(s, w) ==
    /\ Len(s) = Len(w)
    /\ \A i \in 1..Len(w) :
          \E k \in 1..26 :
             LowerLetters[k] = w[i] /\ s[i] \in {LowerLetters[k], UpperLetters[k]}

\* The label the state s is to be shown with.
ExpectedStatus(s) ==
    IF IsCasingOf(s, Active) THEN "In progress"
    ELSE IF \E w \in {Cancelled, Complete, DeadlineExceeded} : IsCasingOf(s, w)
    THEN "Complete"
    ELSE IF IsCasingOf(s, Error) THEN "Error"
    ELSE ""

\* The status show_assessment displayed: the status field of the object,
\* or the Status line of the text.
ShownStatus == IF JsonOutput THEN json_response[1].status ELSE out[4]

\* C14: whatever state the service reports, show_assessment ends
\* successfully and displays the label of that state: "In progress" for
\* active, "Complete" for cancelled, complete and deadlineexceeded, "Error"
\* for error, each in any casing, and the empty label for every other
\* state, the empty one included.
C14_StatusMapping ==
    (cmd = "show" /\ response # None /\ pc \notin {"primary", "report"}) =>
        /\ CompletedSuccessfully
        /\ ShownStatus = ExpectedStatus(response[1].state)

\* show_assessment displayed the state DeadlineExceeded, reported in mixed
\* case, as Complete in its text output.
C14_Witness ==
    /\ cmd = "show" /\ pc = "done"
    /\ ~JsonOutput
    /\ response[1].state =
           <<"D", "e", "a", "d", "l", "i", "n", "e", "E", "x", "c", "e", "e", "d", "e", "d">>
    /\ ShownStatus = "Complete"

\* An item that has a name, a state and a description.
IsComplete(item) ==
    "name" \in DOMAIN item /\ "state" \in DOMAIN item /\ "description" \in DOMAIN item

\* The complete items of the response, in the order returned.
CompleteItems == SelectSeq(response[1].value, IsComplete)

\* C15: for a non-empty collection list_assessment ends successfully with
\* exactly one row for each returned item that has a name, a state and a
\* description, in the order returned, the row holding the name, the label
\* of the state and the description; items without one of the fields give
\* no row and no error.  The same rows make the value of the JSON object,
\* and the table of the text output.
C15_OneRowPerCompleteItem ==
    (cmd = "list" /\ response # None /\ pc \notin {"primary", "report"}
                  /\ response[1].value # <<>>) =>
        /\ CompletedSuccessfully
        /\ rows # None
        /\ Len(rows[1]) = Len(CompleteItems)
        /\ \A i \in 1..Len(CompleteItems) :
              rows[1][i] = <<CompleteItems[i].name,
                             ExpectedStatus(CompleteItems[i].state),
                             CompleteItems[i].description>>
        /\ IF JsonOutput
           THEN /\ Len(json_response[1].value) = Len(CompleteItems)
                /\ \A i \in 1..Len(CompleteItems) :
                      json_response[1].value[i] =
                          [assessmentName |-> CompleteItems[i].name,
                           status |-> ExpectedStatus(CompleteItems[i].state),
                           description |-> CompleteItems[i].description]
           ELSE out = <<Table>>

\* Two items were returned, the first without a state and the second
\* complete, and one row was rendered.
C15_Witness ==
    /\ cmd = "list" /\ pc = "done"
    /\ Len(response[1].value) = 2
    /\ "state" \notin DOMAIN response[1].value[1]
    /\ IsComplete(response[1].value[2])
    /\ Len(rows[1]) = 1

\* C16: when the service returns an empty collection, list_assessment
\* echoes the 'No assessments exist' message and nothing else, ends
\* successfully, and neither builds the rows nor prints a table.
C16_EmptyListing ==
    (cmd = "list" /\ response # None /\ pc \notin {"primary", "report"}
                  /\ response[1].value = <<>>) =>
        /\ CompletedSuccessfully
        /\ out = <<"No assessments exist">>
        /\ rows = None
        /\ Table \notin Range(out)

\* list_assessment ended on an empty collection.
C16_Witness ==
    /\ cmd = "list" /\ pc = "done"
    /\ response # None
    /\ response[1].value = <<>>
    /\ out # <<>>

\* C17: every start request carries maximum_duration_in_minutes 1440 when
\* no maximum duration is supplied and otherwise the parsed minute count
\* (2880 for 2d), and episode_iteration_limit 1000 when no limit is
\* supplied and otherwise the supplied limit.
C17_StartDefaults ==
    \A i \in CallsOf("start_assessmentv2") :
        /\ calls[i].req.maximum_duration_in_minutes =
              IF args.maximum_duration = <<>> THEN 1440
              ELSE DurationMinutes(parse_duration(args.maximum_duration))
        /\ args.maximum_duration = <<"2", "d">> =>
              calls[i].req.maximum_duration_in_minutes = 2880
        /\ calls[i].req.episode_iteration_limit =
              IF args.episode_iteration_limit = None THEN 1000
              ELSE args.episode_iteration_limit[1]

\* needle occurs in text as it is written, letter case included.
IsSubstring(needle, text) ==
    \E a \in 0..Len(text) : \E b \in a..Len(text) : SubSeq(text, a + 1, b) = needle

\* How the command reported the error it failed with.
ReportedAsConflict ==
    /\ err.raiser = "raise_unique_constraint_violation_as_click_exception"
    /\ err.kind = "Assessment" /\ err.id = args.name

ReportedAsNotFound(kind, id) ==
    /\ err.raiser = "raise_not_found_as_click_exception"
    /\ err.kind = kind /\ err.id = id

ReportedAsGeneric ==
    /\ err.raiser \in {"raise_brain_server_error_as_click_exception",
                       "raise_as_click_exception"}
    /\ err.kind = "" /\ err.id = ""

\* The calls that show, get the configuration of, update or stop one
\* assessment.
NamedApis == {"get_assessment", "update_assessment", "stop_assessment_v2"}

\* The calls that raised a BrainServerError.
ServerErrorCalls == {i \in 1..Len(calls) : calls[i].raised.type = "BrainServerError"}

\* C18, as stated: a server error of the start call is reported as a
\* conflict iff its text contains "Unique index constraint violation", one
\* of show, get-configuration, update or stop as not-found iff its text
\* contains "not found", every other server error as a generic server
\* error, and the command fails in all cases.
C18_ClassifiedByTextOnly ==
    \A i \in ServerErrorCalls :
        /\ pc = "failed"
        /\ err.msgs = calls[i].raised.text
        /\ IF calls[i].api = "start_assessmentv2"
                /\ IsSubstring(UniqueIndexConstraintViolation, calls[i].raised.text)
           THEN ReportedAsConflict
           ELSE IF calls[i].api \in NamedApis
                     /\ IsSubstring(NotFound, calls[i].raised.text)
           THEN ReportedAsNotFound("Assessment", args.name)
           ELSE ReportedAsGeneric

\* C18, amended: as above, except that a server error of the package lookup
\* is classified by its status code: 404 is reported as not-found, whatever
\* its text.
C18_ClassifiedByTextOrCode ==
    \A i \in ServerErrorCalls :
        /\ pc = "failed"
        /\ err.msgs = calls[i].raised.text
        /\ IF calls[i].api = "start_assessmentv2"
                /\ IsSubstring(UniqueIndexConstraintViolation, calls[i].raised.text)
           THEN ReportedAsConflict
           ELSE IF calls[i].api \in NamedApis
                     /\ IsSubstring(NotFound, calls[i].raised.text)
           THEN ReportedAsNotFound("Assessment", args.name)
           ELSE IF calls[i].api = "get_sim_package"
                     /\ calls[i].raised.statusCode = 404
           THEN ReportedAsNotFound("Simulator package", args.simulator_package_name)
           ELSE ReportedAsGeneric

\* The update call failed with "Cannot found", which holds "not found"
\* inside a word, and the error was reported as not-found.
C18_Witness ==
    /\ cmd = "update" /\ pc = "failed"
    /\ \E i \in ServerErrorCalls :
          calls[i].raised.text =
              <<"C", "a", "n", "n", "o", "t", " ", "f", "o", "u", "n", "d">>
    /\ ReportedAsNotFound("Assessment", args.name)

\* The provisioning calls (package lookup, create_sim_collection) that
\* failed.
FailedProvisioning ==
    {i \in 1..Len(calls) : calls[i].api \in ProvisioningApis /\ ~calls[i].ok}

\* C19: when the package lookup or create_sim_collection fails after the
\* start call succeeded, start_assessment fails, and the failed call is the
\* last remote call it issues: no stop, delete or other request follows.
C19_NoCompensation ==
    \A i \in FailedProvisioning :
        /\ \E j \in 1..(i - 1) : calls[j].api = "start_assessmentv2" /\ calls[j].ok
        /\ pc = "failed"
        /\ err # NoErr
        /\ i = Len(calls)
        /\ ~Issued("stop_assessment_v2") /\ ~Issued("delete_assessment")

\* create_sim_collection failed after the assessment was started and the
\* package descriptor was fetched.
C19_Witness ==
    /\ cmd = "start" /\ pc = "failed"
    /\ Len(calls) >= 3
    /\ calls[Len(calls)].api = "create_sim_collection"
    /\ ~calls[Len(calls)].ok
    /\ calls[Len(calls) - 1].api = "get_sim_package" /\ calls[Len(calls) - 1].ok
    /\ calls[Len(calls) - 2].api = "start_assessmentv2" /\ calls[Len(calls) - 2].ok

\* C20: every create_sim_collection request carries the descriptor's cores
\* per instance, memory per instance, min and max instance count,
\* auto-scale and auto-terminate as fetched, and as start instance count
\* the user's --instance-count whenever one is given, otherwise the
\* descriptor's startInstanceCount.
C20_ProvisioningRequest ==
    \A i \in CallsOf("create_sim_collection") :
        LET req == calls[i].req
            descriptor == show_simulator_package_response
        IN  /\ req.cores_per_instance = descriptor.coresPerInstance
            /\ req.memory_in_gb_per_instance = descriptor.memInGbPerInstance
            /\ req.min_instance_count = descriptor.minInstanceCount
            /\ req.max_instance_count = descriptor.maxInstanceCount
            /\ req.auto_scaling = descriptor.autoScale
            /\ req.auto_termination = descriptor.autoTerminate
            /\ req.start_instance_count =
                  IF args.instance_count # None THEN args.instance_count[1]
                  ELSE descriptor.startInstanceCount

\* The remote endpoints the commands use.
Endpoints ==
    { "get_latest_brain_version", "start_assessmentv2", "list_assessment",
      "get_assessment", "update_assessment", "stop_assessment_v2",
      "delete_assessment", "get_sim_package", "create_sim_collection" }

\* The place of an endpoint in a command: version resolution, primary
\* action, package lookup, provisioning.
Phase(api) ==
    CASE api = "get_latest_brain_version" -> 1
      [] api = "get_sim_package" -> 3
      [] api = "create_sim_collection" -> 4
      [] OTHER -> 2

\* C21: in one invocation every remote endpoint is called at most once,
\* the only primary endpoint called is the command's own, a call that
\* failed is the last one (nothing is retried), and the calls come in the
\* order version resolution, primary action, package lookup, provisioning.
C21_NoRetryInOrder ==
    /\ \A api \in Endpoints : Cardinality(CallsOf(api)) <= 1
    /\ \A i \in 1..Len(calls) :
          /\ calls[i].api \in Endpoints
          /\ Phase(calls[i].api) = 2 => calls[i].api = PrimaryApi
          /\ Phase(calls[i].api) > 2 => cmd = "start"
          /\ ~calls[i].ok => i = Len(calls)
    /\ \A i \in 1..Len(calls) : \A j \in 1..Len(calls) :
          i < j => Phase(calls[i].api) < Phase(calls[j].api)

\* start_assessment made all four of its calls, in order, and ended.
C21_Witness ==
    /\ cmd = "start" /\ pc = "done"
    /\ Len(calls) = 4
    /\ calls[1].api = "get_latest_brain_version"
    /\ calls[2].api = "start_assessmentv2"
    /\ calls[3].api = "get_sim_package"
    /\ calls[4].api = "create_sim_collection"

\* t is absent, or digits followed by the unit letter u.
IsGroup(t, u) ==
    \/ t = <<>>
    \/ /\ Len(t) >= 2
       /\ t[Len(t)] = u
       /\ \A i \in 1..(Len(t) - 1) : t[i] \in DigitChars

\* s is, from its first character to its last, <days>d<hours>h<minutes>m
\* with any of the groups left out.
IsWholeComposite(s) ==
    \E a \in 0..Len(s) : \E b \in a..Len(s) :
        /\ IsGroup(SubSeq(s, 1, a), "d")
        /\ IsGroup(SubSeq(s, a + 1, b), "h")
        /\ IsGroup(SubSeq(s, b + 1, Len(s)), "m")

\* C22: a maximum duration that is neither an integer nor, in its entirety,
\* a composite of the groups <days>d, <hours>h, <minutes>m in that order
\* (units out of order, characters after a composite) is reported as an
\* invalid duration, and no start request is issued.
C22_NonCompositeRejected ==
    ( /\ cmd = "start" /\ pc # "validate"
      /\ args.maximum_duration # <<>>
      /\ ~IsPyInt(args.maximum_duration)
      /\ ~IsWholeComposite(args.maximum_duration) ) =>
        /\ pc = "failed"
        /\ InvalidDuration \in Range(err.msgs)
        /\ ~Issued("start_assessmentv2")

====
